---- MODULE Spec2Model ----
(***************************************************************************)
(* A model of toydb's in-memory table engine (src/src/main.rs): the Table  *)
(* type with new, insert, select, less_than, like, left_join and display,  *)
(* and the LIKE pattern matcher.  A HashMap is a function whose DOMAIN is  *)
(* its key set; a Vec is a sequence; a String is a sequence of one-        *)
(* character strings, except column names, which are TLA+ strings.  A      *)
(* panic is recorded in status and ends the run.                           *)
(***************************************************************************)
EXTENDS Integers, Sequences, FiniteSets, TLC

VARIABLES
    t,       \* the table the program holds (the receiver of every call)
    op,      \* the name of the last operation called on it
    status,  \* "ok", or "panic" once a call has panicked
    nops     \* number of derived tables built so far in the chain

vars == <<t, op, status, nops>>

\* ------------------------------------------------------------------ bounds
MaxRows == 1        \* rows inserted into the held table
MaxOps == 2         \* length of a chain of select/less_than/like/left_join

\* ------------------------------------------------------------------ values
\* enum Type { Int(Option<i32>), Text(Option<String>) }
IntNone == [kind |-> "Int", null |-> TRUE, i |-> 0, s |-> <<>>]
IntSome(n) == [kind |-> "Int", null |-> FALSE, i |-> n, s |-> <<>>]
TextNone == [kind |-> "Text", null |-> TRUE, i |-> 0, s |-> <<>>]
TextSome(str) == [kind |-> "Text", null |-> FALSE, i |-> 0, s |-> str]

\* HashMap helpers
EmptyMap == [k \in {} |-> 0]
Put(m, k, v) == [x \in (DOMAIN m) \cup {k} |-> IF x = k THEN v ELSE m[x]]
\* HashMap::get: Option<&V>, None is <<>> and Some(v) is <<v>>
Get(m, k) == IF k \in DOMAIN m THEN <<m[k]>> ELSE <<>>
Restrict(m, ks) == [x \in (DOMAIN m) \cap ks |-> m[x]]

RECURSIVE SeqsUpTo(_, _)
SeqsUpTo(S, n) ==
    IF n = 0 THEN {<<>>}
    ELSE LET shorter == SeqsUpTo(S, n - 1)
         IN  shorter \cup {Append(q, x) : q \in shorter, x \in S}

Range(q) == {q[k] : k \in DOMAIN q}

\* ------------------------------------------------------------------ i32_len
RECURSIVE DigitLoop(_)
DigitLoop(i) == IF 0 < i THEN 1 + DigitLoop(i \div 10) ELSE 0

\* i = -i wraps only for i32::MIN, which the inputs below never hold
i32_len(i) == IF i < 0 THEN 1 + DigitLoop(-i) ELSE DigitLoop(i)

\* the width insert computes for a value
ValueLen(v) ==
    IF v.kind = "Int" /\ ~v.null THEN i32_len(v.i)
    ELSE IF v.kind = "Text" /\ ~v.null THEN Len(v.s)
    ELSE 4

\* ------------------------------------------------------------------ Table::new
RECURSIVE NewLoop(_, _)
NewLoop(tb, col) ==
    IF col = <<>> THEN tb
    ELSE LET c == Head(col)
         IN  NewLoop([tb EXCEPT !.order = Append(@, c[1]),
                                !.column = Put(@, c[1], c[2]),
                                !.max_lens = Put(@, c[1], Len(c[1]))],
                     Tail(col))

New(name, col) ==
    NewLoop([name |-> name, order |-> <<>>, column |-> EmptyMap,
             max_lens |-> EmptyMap, data |-> <<>>], col)

\* ------------------------------------------------------------------ Table::insert
InsertPairOk(max_lens, hashmap, d) ==
    LET len == ValueLen(d[2])
    IN  [max_lens |-> IF max_lens[d[1]] < len THEN Put(max_lens, d[1], len)
                      ELSE max_lens,
         hashmap |-> Put(hashmap, d[1], d[2])]

RECURSIVE InsertLoop(_, _, _, _)
InsertLoop(column, max_lens, hashmap, data) ==
    IF data = <<>>
    THEN [err |-> "none", max_lens |-> max_lens, hashmap |-> hashmap]
    ELSE LET d == Head(data)
         IN  IF d[1] \in DOMAIN column
             THEN IF d[1] \in DOMAIN hashmap
                  THEN [err |-> "duplicate", max_lens |-> max_lens,
                        hashmap |-> hashmap]
                  ELSE LET r == InsertPairOk(max_lens, hashmap, d)
                       IN  InsertLoop(column, r.max_lens, r.hashmap, Tail(data))
             ELSE [err |-> "unknown", max_lens |-> max_lens, hashmap |-> hashmap]

\* the table after the call, and whether the call panicked
insert(self, data) ==
    LET r == InsertLoop(self.column, self.max_lens, EmptyMap, data)
    IN  IF r.err = "none"
        THEN [err |-> "none",
              tbl |-> [self EXCEPT !.max_lens = r.max_lens,
                                   !.data = Append(@, r.hashmap)]]
        ELSE [err |-> r.err, tbl |-> [self EXCEPT !.max_lens = r.max_lens]]

\* ------------------------------------------------------------------ Table::select
\* a select that narrows the width cache along with the schema
select_narrowing_widths(self, cols) ==
    [self EXCEPT !.column = Restrict(self.column, Range(cols)),
                 !.max_lens = Restrict(self.max_lens, Range(cols)),
                 !.order = cols]

select(self, cols) ==
    [self EXCEPT !.column = Restrict(self.column, Range(cols)),
                 !.order = cols]

\* ------------------------------------------------------------------ Table::less_than
\* d[col] panics when the row has no entry for col
IndexPanics(self, col) == \E k \in DOMAIN self.data : col \notin DOMAIN self.data[k]

LessThanKeeps(d, col, num) ==
    d[col].kind = "Int" /\ ~d[col].null /\ d[col].i < num

less_than(self, col, num) ==
    IF IndexPanics(self, col) THEN [err |-> TRUE, tbl |-> self]
    ELSE [err |-> FALSE,
          tbl |-> [self EXCEPT !.data =
                      SelectSeq(self.data, LAMBDA d : LessThanKeeps(d, col, num))]]

\* ------------------------------------------------------------------ like
Underscore == [t |-> "Underscore", s |-> <<>>]
Percent == [t |-> "Percent", s |-> <<>>]
Str(s) == [t |-> "Str", s |-> s]

\* the maximal run of literal characters at the head of chars
RECURSIVE LiteralRun(_)
LiteralRun(chars) ==
    IF chars = <<>> \/ Head(chars) = "%" \/ Head(chars) = "_" THEN <<>>
    ELSE <<Head(chars)>> \o LiteralRun(Tail(chars))

RECURSIVE tokenize(_)
tokenize(pattern) ==
    IF pattern = <<>> THEN <<>>
    ELSE IF Head(pattern) = "_" THEN <<Underscore>> \o tokenize(Tail(pattern))
    ELSE IF Head(pattern) = "%" THEN <<Percent>> \o tokenize(Tail(pattern))
    ELSE LET s == <<Head(pattern)>> \o LiteralRun(Tail(pattern))
         IN  <<Str(s)>> \o tokenize(SubSeq(pattern, Len(s) + 1, Len(pattern)))

StartsWith(target, s) ==
    Len(s) <= Len(target) /\ SubSeq(target, 1, Len(s)) = s

\* target[i..]
From(target, i) == SubSeq(target, i + 1, Len(target))

PercentSplits(target) == 1 .. (Len(target) - 1)

RECURSIVE like(_, _)
like(pattern, target) ==
    IF target = <<>> THEN pattern = <<>>
    ELSE IF pattern = <<>> THEN FALSE
    ELSE LET p == Head(pattern)
         IN  CASE p.t = "Underscore" -> like(Tail(pattern), From(target, 1))
               [] p.t = "Percent" ->
                      Len(pattern) = 1
                      \/ \E i \in PercentSplits(target) :
                             like(Tail(pattern), From(target, i))
               [] p.t = "Str" ->
                      IF ~StartsWith(target, p.s) THEN FALSE
                      ELSE like(Tail(pattern), From(target, Len(p.s)))

LikeKeeps(d, col, tokens) ==
    d[col].kind = "Text" /\ ~d[col].null /\ like(tokens, d[col].s)

table_like(self, col, pattern) ==
    IF IndexPanics(self, col) THEN [err |-> TRUE, tbl |-> self]
    ELSE [err |-> FALSE,
          tbl |-> [self EXCEPT !.data =
                      SelectSeq(self.data,
                                LAMBDA d : LikeKeeps(d, col, tokenize(pattern)))]]

\* ------------------------------------------------------------------ Table::left_join
\* the loop over other.order: imports the columns the left schema lacks
RECURSIVE JoinColumns(_, _, _, _)
JoinColumns(new_t, other, order, other_cols) ==
    IF order = <<>>
    THEN [err |-> FALSE, tbl |-> new_t, other_cols |-> other_cols]
    ELSE LET o == Head(order)
         IN  IF o \notin DOMAIN new_t.column
             THEN IF o \notin DOMAIN other.column \/ o \notin DOMAIN other.max_lens
                  THEN [err |-> TRUE, tbl |-> new_t, other_cols |-> other_cols]
                  ELSE JoinColumns(
                           [new_t EXCEPT !.order = Append(@, o),
                                         !.column = Put(@, o, other.column[o]),
                                         !.max_lens = Put(@, o, other.max_lens[o])],
                           other, Tail(order), Append(other_cols, o))
             ELSE JoinColumns(new_t, other, Tail(order), other_cols)

\* d.get(key) == od.get(key), a comparison of two Options
KeysMatch(d, od, key) == Get(d, key) = Get(od, key)

\* d.insert(oc, od.get(oc).unwrap().clone()) for every imported column
RECURSIVE MergeRow(_, _, _)
MergeRow(d, od, other_cols) ==
    IF other_cols = <<>> THEN [err |-> FALSE, row |-> d]
    ELSE LET oc == Head(other_cols)
         IN  IF oc \notin DOMAIN od THEN [err |-> TRUE, row |-> d]
             ELSE MergeRow(Put(d, oc, od[oc]), od, Tail(other_cols))

\* the inner loop over other.data for one left row
RECURSIVE JoinRow(_, _, _, _)
JoinRow(d, odata, key, other_cols) ==
    IF odata = <<>> THEN [err |-> FALSE, row |-> d]
    ELSE LET od == Head(odata)
         IN  IF KeysMatch(d, od, key)
             THEN LET m == MergeRow(d, od, other_cols)
                  IN  IF m.err THEN m
                      ELSE JoinRow(m.row, Tail(odata), key, other_cols)
             ELSE JoinRow(d, Tail(odata), key, other_cols)

left_join(self, other, key) ==
    IF key \notin DOMAIN other.column \/ key \notin DOMAIN self.column
    THEN [err |-> FALSE, tbl |-> self]
    ELSE LET c == JoinColumns(self, other, other.order, <<>>)
             rows == [k \in DOMAIN self.data |->
                         JoinRow(self.data[k], other.data, key, c.other_cols)]
         IN  IF c.err \/ \E k \in DOMAIN rows : rows[k].err
             THEN [err |-> TRUE, tbl |-> self]
             ELSE [err |-> FALSE,
                   tbl |-> [c.tbl EXCEPT !.data =
                               [k \in DOMAIN self.data |-> rows[k].row]]]

\* ------------------------------------------------------------------ Table::display
\* the number of characters "{}" prints for an i32
RECURSIVE DecimalLen(_)
DecimalLen(i) ==
    IF i < 0 THEN 1 + DecimalLen(-i)
    ELSE IF i < 10 THEN 1 ELSE 1 + DecimalLen(i \div 10)

\* what one cell prints before padding: the text shown and its length
Cell(d, col) ==
    IF col \in DOMAIN d /\ d[col].kind = "Int" /\ ~d[col].null
    THEN [shows |-> "int", len |-> DecimalLen(d[col].i), align |-> "right"]
    ELSE IF col \in DOMAIN d /\ d[col].kind = "Text" /\ ~d[col].null
    THEN [shows |-> "text", len |-> Len(d[col].s), align |-> "left"]
    ELSE [shows |-> "NULL", len |-> 4, align |-> "right"]

\* self.max_lens[key] panics when the width cache has no entry for key
DisplayPanics(self) == \E k \in DOMAIN self.order : self.order[k] \notin DOMAIN self.max_lens

display(self) ==
    IF DisplayPanics(self) THEN [err |-> TRUE, grid |-> <<>>]
    ELSE [err |-> FALSE,
          grid |-> [r \in DOMAIN self.data |->
                       [c \in DOMAIN self.order |->
                           Cell(self.data[r], self.order[c])]]]

\* ------------------------------------------------------------------ inputs
Names == {"id", "nm", "dt"}
Table1Cols == << <<"id", IntNone>>, <<"nm", TextNone>> >>
Table2Cols == << <<"id", IntNone>>, <<"nm", TextNone>>, <<"dt", TextNone>> >>

Texts == {<<>>, <<"s">>, <<"a", "s">>}
Ints == {-12}
Thresholds == {-12, 0}
PatternChars == {"s", "_", "%"}
JoinKeys == {"id", "dt"}

Pairs ==
    {<<"id", v>> : v \in {IntNone} \cup {IntSome(n) : n \in Ints}}
    \cup {<<"nm", v>> : v \in {TextNone} \cup {TextSome(x) : x \in Texts}}
    \cup {<<"dt", TextSome(<<"s">>)>>}

\* the argument lists of insert, select and like: up to two entries each
RowInputs == SeqsUpTo(Pairs, 2)
ColLists == SeqsUpTo(Names, 2)
Patterns == SeqsUpTo(PatternChars, 2)

\* the right-hand tables of a join: table2 after new and these inserts
OtherRowLists ==
    {<<>>,
     << << <<"id", IntSome(-12)>>, <<"dt", TextSome(<<"s">>)>> >> >>,
     << << <<"id", IntSome(-12)>>, <<"dt", TextSome(<<"s">>)>> >>,
        << <<"id", IntSome(-12)>>, <<"dt", TextSome(<<"a", "s">>)>> >> >>,
     << << <<"dt", TextSome(<<"s">>)>> >> >>,
     << << <<"id", IntSome(-12)>> >> >>,
     << << <<"id", IntNone>>, <<"dt", TextSome(<<"a", "s">>)>> >> >>}

RECURSIVE InsertAll(_, _)
InsertAll(tb, rows) ==
    IF rows = <<>> THEN tb ELSE InsertAll(insert(tb, Head(rows)).tbl, Tail(rows))

OtherTables ==
    {InsertAll(New("table2", Table2Cols), rows) :
        rows \in OtherRowLists}

\* ------------------------------------------------------------------ state machine
Init ==
    /\ t = New("table1", Table1Cols)
    /\ op = "new"
    /\ status = "ok"
    /\ nops = 0

Outcome(err) == IF err THEN "panic" ELSE "ok"

Insert(data) ==
    /\ status = "ok"
    /\ Len(t.data) < MaxRows
    /\ LET r == insert(t, data)
       IN  /\ t' = r.tbl
           /\ status' = Outcome(r.err # "none")
    /\ op' = "insert"
    /\ UNCHANGED nops

Select(cols) ==
    /\ status = "ok"
    /\ nops < MaxOps
    /\ t' = select(t, cols)
    /\ op' = "select"
    /\ nops' = nops + 1
    /\ UNCHANGED status

LessThan(col, num) ==
    /\ status = "ok"
    /\ nops < MaxOps
    /\ LET r == less_than(t, col, num)
       IN  /\ t' = r.tbl
           /\ status' = Outcome(r.err)
    /\ op' = "less_than"
    /\ nops' = nops + 1

Like(col, pattern) ==
    /\ status = "ok"
    /\ nops < MaxOps
    /\ LET r == table_like(t, col, pattern)
       IN  /\ t' = r.tbl
           /\ status' = Outcome(r.err)
    /\ op' = "like"
    /\ nops' = nops + 1

LeftJoin(other, key) ==
    /\ status = "ok"
    /\ nops < MaxOps
    /\ LET r == left_join(t, other, key)
       IN  /\ t' = r.tbl
           /\ status' = Outcome(r.err)
    /\ op' = "left_join"
    /\ nops' = nops + 1

Display ==
    /\ status = "ok"
    /\ op # "display"
    /\ status' = Outcome(display(t).err)
    /\ op' = "display"
    /\ UNCHANGED <<t, nops>>

Next ==
    \/ \E data \in RowInputs : Insert(data)
    \/ \E cols \in ColLists : Select(cols)
    \/ \E col \in DOMAIN t.column, num \in Thresholds : LessThan(col, num)
    \/ \E col \in DOMAIN t.column, pattern \in Patterns : Like(col, pattern)
    \/ \E other \in OtherTables, key \in JoinKeys : LeftJoin(other, key)
    \/ Display

Spec == Init /\ [][Next]_vars

\* ------------------------------------------------------------------ properties
\* what a read of column c of row d yields: its value, or null when the row
\* stores a null or has no entry for c
NullRead == [kind |-> "Null", null |-> TRUE, i |-> 0, s |-> <<>>]
Reads(d, c) == IF c \in DOMAIN d /\ ~d[c].null THEN d[c] ELSE NullRead

RowKeysInSchema(tb) == \A k \in DOMAIN tb.data : DOMAIN tb.data[k] \subseteq DOMAIN tb.column

NoRepeat(q) == \A a, b \in DOMAIN q : q[a] = q[b] => a = b

\* reference LIKE semantics over the pattern's characters
RECURSIVE RefLike(_, _)
RefLike(p, x) ==
    IF p = <<>> THEN x = <<>>
    ELSE IF Head(p) = "%"
         THEN RefLike(Tail(p), x) \/ (x # <<>> /\ RefLike(p, Tail(x)))
         ELSE /\ x # <<>>
              /\ (Head(p) = "_" \/ Head(p) = Head(x))
              /\ RefLike(Tail(p), Tail(x))

\* C1: on a table built by new and successful inserts, less_than(col, n) on
\* an integer column returns exactly the source rows, in order, whose col is
\* a non-null integer below n; rows with a null or absent col are excluded.
C1_LessThanExact ==
    [][\A col \in DOMAIN t.column, num \in Thresholds :
          (LessThan(col, num) /\ nops = 0 /\ t.column[col].kind = "Int")
          => /\ status' = "ok"
             /\ t'.data = SelectSeq(t.data,
                    LAMBDA d : /\ Reads(d, col).kind = "Int"
                               /\ Reads(d, col).i < num)
             /\ t'.order = t.order /\ t'.column = t.column]_vars

\* C2: select(cols) returns a schema (order and kind map) made of exactly
\* the names of cols that the source schema has, in the order given; the
\* result's order never names a column missing from its kind map or its
\* width cache.
C2_SelectDropsUnknown ==
    [][\A cols \in ColLists :
          Select(cols)
          => /\ t'.order = SelectSeq(cols, LAMBDA c : c \in DOMAIN t.column)
             /\ DOMAIN t'.column = Range(t'.order)
             /\ \A c \in DOMAIN t'.column : t'.column[c] = t.column[c]
             /\ Range(t'.order) \subseteq DOMAIN t'.max_lens]_vars

\* C3: like(column, pattern) keeps a row exactly when its column holds
\* non-null text matching the whole pattern under the reference semantics
\* ('_' one character, '%' zero or more, anything else itself).
C3_LikeMatchesReference ==
    [][\A col \in DOMAIN t.column, pattern \in Patterns :
          (Like(col, pattern) /\ status' = "ok")
          => t'.data = SelectSeq(t.data,
                 LAMBDA d : /\ Reads(d, col).kind = "Text"
                            /\ RefLike(pattern, Reads(d, col).s))]_vars

\* C4: insert fails exactly when its row names an unknown column or the
\* same column twice, and a failing insert leaves the table as it was: no
\* row appended, no cached width raised.
InsertMustFail(tb, data) ==
    \/ \E k \in DOMAIN data : data[k][1] \notin DOMAIN tb.column
    \/ \E a, b \in DOMAIN data : a # b /\ data[a][1] = data[b][1]

C4_FailedInsertHasNoEffect ==
    [][\A data \in RowInputs :
          Insert(data)
          => /\ (status' = "panic") <=> InsertMustFail(t, data)
             /\ status' = "panic" => t' = t]_vars

\* C5: select, less_than, like and display never fail on a table whose
\* rows' keys all lie in its schema, rows that omit schema columns included.
C5_QueriesNeverFail ==
    [][(RowKeysInSchema(t) /\ op' \in {"select", "less_than", "like", "display"})
          => status' = "ok"]_vars

\* C6: with key in both schemas, left_join returns one row per left row, in
\* left order; each imported column reads as in the last right row that has
\* the key column with a value equal to the left row's, both rows having
\* the key column; with no such right row it reads null.
Imported(self, other) == {c \in Range(other.order) : c \notin DOMAIN self.column}

MatchingRows(d, other, key) ==
    {j \in DOMAIN other.data :
        /\ key \in DOMAIN d
        /\ key \in DOMAIN other.data[j]
        /\ d[key] = other.data[j][key]}

LastOf(S) == CHOOSE j \in S : \A k \in S : k <= j

ExpectedRead(d, other, key, c) ==
    LET m == MatchingRows(d, other, key)
    IN  IF m = {} THEN NullRead ELSE Reads(other.data[LastOf(m)], c)

C6_JoinTakesLastMatch ==
    [][\A other \in OtherTables, key \in JoinKeys :
          (/\ LeftJoin(other, key)
           /\ key \in DOMAIN t.column
           /\ key \in DOMAIN other.column)
          => /\ status' = "ok"
             /\ Len(t'.data) = Len(t.data)
             /\ \A k \in DOMAIN t.data : \A c \in Imported(t, other) :
                    Reads(t'.data[k], c) = ExpectedRead(t.data[k], other, key, c)]_vars

\* C7: after any insert or left_join, every schema column's cached width is
\* at least the length of its name and the width of everything any row
\* shows in it: a value, or the 4 characters of NULL for a stored null, a
\* column the row lacks or an unmatched imported column.
C7_WidthCoversCells ==
    (op \in {"insert", "left_join"} /\ status = "ok")
    => \A c \in DOMAIN t.column :
          /\ c \in DOMAIN t.max_lens
          /\ t.max_lens[c] >= Len(c)
          /\ \A k \in DOMAIN t.data : t.max_lens[c] >= Cell(t.data[k], c).len

\* C8: left_join returns the left table unchanged when key is missing from
\* either schema; otherwise the result's order is the left order followed
\* by other's columns that the left schema lacks, in other's order, with
\* kinds and widths copied from other, and it repeats no name if neither
\* input's order does.
C8_JoinSchema ==
    [][\A other \in OtherTables, key \in JoinKeys :
          (LeftJoin(other, key) /\ status' = "ok")
          => IF key \notin DOMAIN t.column \/ key \notin DOMAIN other.column
             THEN t' = t
             ELSE /\ t'.order = t.order \o SelectSeq(other.order,
                                     LAMBDA c : c \notin DOMAIN t.column)
                  /\ \A c \in Imported(t, other) :
                        /\ t'.column[c] = other.column[c]
                        /\ t'.max_lens[c] = other.max_lens[c]
                  /\ (NoRepeat(t.order) /\ NoRepeat(other.order))
                        => NoRepeat(t'.order)]_vars

\* C9: cached widths never shrink: after insert, select, less_than, like or
\* left_join every name's cached width is at least what the table the
\* operation was applied to had cached for it.
C9_WidthsNeverShrink ==
    [][op' \in {"insert", "select", "less_than", "like", "left_join"}
          => \A c \in DOMAIN t.max_lens :
                /\ c \in DOMAIN t'.max_lens
                /\ t'.max_lens[c] >= t.max_lens[c]]_vars

\* C10 as stated: in every reachable table every row's keys are a subset of
\* the schema's columns.
C10_RowKeysInSchemaAlways == RowKeysInSchema(t)

\* C10 as amended: in every reachable table every row's keys are a subset of
\* the columns of the width cache, which select leaves whole while it
\* narrows the schema.
C10_RowKeysInWidthCache ==
    /\ \A k \in DOMAIN t.data : DOMAIN t.data[k] \subseteq DOMAIN t.max_lens
    /\ DOMAIN t.column \subseteq DOMAIN t.max_lens

\* a select has hidden a column that a stored row still holds
C10_SelectHidesStoredColumn ==
    /\ op = "select"
    /\ status = "ok"
    /\ \E k \in DOMAIN t.data : \E c \in DOMAIN t.data[k] :
          c \notin DOMAIN t.column /\ c \in DOMAIN t.max_lens

====
